---- MODULE Spec2Model ----
(***************************************************************************)
(* Model of the batch PNG -> GeoTIFF converter (src/geotiffconverter.py.py).*)
(*                                                                         *)
(* Three specifications share this module:                                 *)
(*   Spec          the Streamlit session: uploads, the file matching block, *)
(*                 the conversion loop (one action per statement group of  *)
(*                 the loop body), the download + summary block;           *)
(*   SpecParse     parse_map applied to calibration texts;                 *)
(*   SpecTransform from_bounds applied to bounds and raster dimensions.    *)
(*                                                                         *)
(* Text is modelled as sequences of one-character strings, numbers read by *)
(* float() as exact rationals [num, den] in lowest terms.                  *)
(***************************************************************************)
EXTENDS Integers, Sequences, FiniteSets, TLC

VARIABLES
    widget_files,   \* value of st.file_uploader in the current script run
    output_type,    \* value of the st.radio
    ss,             \* st.session_state
    disk,           \* names of the temporary files that exist
    pc,             \* position inside the conversion loop ("idle" outside it)
    i,              \* loop index into ss.matched_keys (1-based)
    zipf,           \* entries written to the ZipFile of the running conversion
    loc,            \* locals of the loop body
    parsed,         \* parse_map(contents) of every .map upload, computed in Init
    p_text, p_result, p_pc,            \* SpecParse
    t_bounds, t_dims, t_transform, t_pixel, t_world, t_pc   \* SpecTransform

appVars == <<widget_files, output_type, ss, disk, pc, i, zipf, loc, parsed>>
parseVars == <<p_text, p_result, p_pc>>
transVars == <<t_bounds, t_dims, t_transform, t_pixel, t_world, t_pc>>
vars == <<appVars, parseVars, transVars>>

\* Python's None, and a raised exception, as results of the modelled functions
None == [ok |-> FALSE]
Raised(e) == [ok |-> FALSE, exc |-> e]
\* an empty dict
EmptyDict == [k \in {} |-> 0]

(***************************************************************************)
(* Exact rational arithmetic (stands for Python floats).                   *)
(***************************************************************************)
Abs(n) == IF n < 0 THEN -n ELSE n

RECURSIVE Gcd(_, _)
Gcd(a, b) == IF b = 0 THEN a ELSE Gcd(b, a % b)

Rat(n, d) ==
    LET s == IF d < 0 THEN -1 ELSE 1
        g == Gcd(Abs(n), Abs(d))
    IN  [num |-> (s * n) \div g, den |-> (s * d) \div g]

RInt(n) == [num |-> n, den |-> 1]
RAdd(x, y) == Rat(x.num * y.den + y.num * x.den, x.den * y.den)
RSub(x, y) == Rat(x.num * y.den - y.num * x.den, x.den * y.den)
RMul(x, y) == Rat(x.num * y.num, x.den * y.den)
RLt(x, y) == x.num * y.den < y.num * x.den
\* x / y for a rational x and an integer y; Python raises ZeroDivisionError
RDivInt(x, n) ==
    IF n = 0 THEN Raised("ZeroDivisionError")
    ELSE [ok |-> TRUE, val |-> Rat(x.num, x.den * n)]

(***************************************************************************)
(* String functions used by parse_map.                                     *)
(***************************************************************************)
Digits == <<"0", "1", "2", "3", "4", "5", "6", "7", "8", "9">>
IsDigit(c) == \E d \in 1..10 : Digits[d] = c
DigitVal(c) == (CHOOSE d \in 1..10 : Digits[d] = c) - 1

\* str.startswith
startswith(s, prefix) ==
    /\ Len(s) >= Len(prefix)
    /\ SubSeq(s, 1, Len(prefix)) = prefix

\* str.split(sep) for a one-character separator
RECURSIVE split(_, _)
split(s, sep) ==
    IF \A k \in 1..Len(s) : s[k] # sep
    THEN <<s>>
    ELSE LET k == CHOOSE j \in 1..Len(s) :
                     s[j] = sep /\ \A m \in 1..(j - 1) : s[m] # sep
         IN  <<SubSeq(s, 1, k - 1)>> \o split(SubSeq(s, k + 1, Len(s)), sep)

\* the whitespace stripping float() does before it reads the number
RECURSIVE strip(_)
strip(s) ==
    IF s = <<>> THEN s
    ELSE IF Head(s) = " " THEN strip(Tail(s))
    ELSE IF s[Len(s)] = " " THEN strip(SubSeq(s, 1, Len(s) - 1))
    ELSE s

RECURSIVE DigitsValue(_)
DigitsValue(s) ==
    IF s = <<>> THEN 0
    ELSE 10 * DigitsValue(SubSeq(s, 1, Len(s) - 1)) + DigitVal(s[Len(s)])

RECURSIVE Pow10(_)
Pow10(n) == IF n = 0 THEN 1 ELSE 10 * Pow10(n - 1)

\* float(token): [sign] digits [. digits] or [sign] . digits, surrounded by
\* optional blanks; anything else raises ValueError.
float(token) ==
    LET t == strip(token)
        neg == t # <<>> /\ Head(t) = "-"
        body == IF neg THEN Tail(t) ELSE t
        parts == split(body, ".")
        ip == parts[1]
        fp == IF Len(parts) = 2 THEN parts[2] ELSE <<>>
        wellformed ==
            /\ Len(parts) <= 2
            /\ \A k \in 1..Len(ip) : IsDigit(ip[k])
            /\ \A k \in 1..Len(fp) : IsDigit(fp[k])
            /\ Len(ip) + Len(fp) > 0
        mag == Rat(DigitsValue(ip) * Pow10(Len(fp)) + DigitsValue(fp), Pow10(Len(fp)))
    IN  IF ~wellformed THEN Raised("ValueError")
        ELSE [ok |-> TRUE, val |-> IF neg THEN Rat(-mag.num, mag.den) ELSE mag]

\* line.split(",")[2:4]
Slice24(line) ==
    LET f == split(line, ",")
    IN  IF Len(f) <= 2 THEN <<>>
        ELSE SubSeq(f, 3, IF Len(f) >= 4 THEN 4 ELSE Len(f))

\* x, y = map(float, line.split(",")[2:4]): the two numbers, or the exception
\* (too few values to unpack, or a field float() rejects)
FloatPair(line) ==
    LET sl == Slice24(line)
    IN  IF Len(sl) # 2 THEN Raised("ValueError")
        ELSE IF ~float(sl[1]).ok \/ ~float(sl[2]).ok THEN Raised("ValueError")
        ELSE [ok |-> TRUE, x |-> float(sl[1]).val, y |-> float(sl[2]).val]

PrefixMMPLL(n) == <<"M", "M", "P", "L", "L", ",", " ", n>>

\* coords with coords[k] = v
Put(coords, k, v) ==
    [j \in (DOMAIN coords) \cup {k} |-> IF j = k THEN v ELSE coords[j]]

\* the body of the loop over lines for an index-1, index-2, index-3 line
SetFromLine1(coords, pair) == Put(Put(coords, "minx", pair.x), "maxy", pair.y)
\* mutant: the index-2 line read at the wrong field
SetFromLine2_OtherField(coords, pair) == Put(coords, "maxx", pair.y)
SetFromLine2(coords, pair) == Put(coords, "maxx", pair.x)
SetFromLine3(coords, pair) == Put(coords, "miny", pair.y)

\* one iteration of the loop over lines; st = [err, c]: an exception was
\* raised, the coords dict
ParseLine(st, line) ==
    IF st.err THEN st
    ELSE IF startswith(line, PrefixMMPLL("1"))
    THEN IF ~FloatPair(line).ok THEN [st EXCEPT !.err = TRUE]
         ELSE [st EXCEPT !.c = SetFromLine1(st.c, FloatPair(line))]
    ELSE IF startswith(line, PrefixMMPLL("2"))
    THEN IF ~FloatPair(line).ok THEN [st EXCEPT !.err = TRUE]
         ELSE [st EXCEPT !.c = SetFromLine2(st.c, FloatPair(line))]
    ELSE IF startswith(line, PrefixMMPLL("3"))
    THEN IF ~FloatPair(line).ok THEN [st EXCEPT !.err = TRUE]
         ELSE [st EXCEPT !.c = SetFromLine3(st.c, FloatPair(line))]
    ELSE st

RECURSIVE ParseLines(_, _)
ParseLines(st, lines) ==
    IF lines = <<>> THEN st
    ELSE ParseLines(ParseLine(st, Head(lines)), Tail(lines))

\* file_contents: [utf8 |-> the bytes decode as UTF-8, lines |-> the lines]
\* Result: None, or the tuple as [ok |-> TRUE, minx, miny, maxx, maxy].
parse_map(file_contents) ==
    IF ~file_contents.utf8 THEN None
    ELSE LET st == ParseLines([err |-> FALSE, c |-> EmptyDict], file_contents.lines)
         IN  IF st.err THEN None
             ELSE IF DOMAIN st.c # {"minx", "miny", "maxx", "maxy"} THEN None
             ELSE [ok |-> TRUE, minx |-> st.c["minx"], miny |-> st.c["miny"],
                   maxx |-> st.c["maxx"], maxy |-> st.c["maxy"]]

(***************************************************************************)
(* from_bounds and the affine transform (rasterio.transform, affine).      *)
(***************************************************************************)
\* Affine(a, b, c, d, e, f): x = a*col + b*row + c, y = d*col + e*row + f
Affine(a, b, c, d, e, f) == [a |-> a, b |-> b, c |-> c, d |-> d, e |-> e, f |-> f]
AffineTranslation(xoff, yoff) == Affine(RInt(1), RInt(0), xoff, RInt(0), RInt(1), yoff)
AffineScale(sx, sy) == Affine(sx, RInt(0), RInt(0), RInt(0), sy, RInt(0))

\* the product of two affine matrices (Affine.__mul__)
AffineMul(m, n) ==
    Affine(RAdd(RMul(m.a, n.a), RMul(m.b, n.d)),
           RAdd(RMul(m.a, n.b), RMul(m.b, n.e)),
           RAdd(RAdd(RMul(m.a, n.c), RMul(m.b, n.f)), m.c),
           RAdd(RMul(m.d, n.a), RMul(m.e, n.d)),
           RAdd(RMul(m.d, n.b), RMul(m.e, n.e)),
           RAdd(RAdd(RMul(m.d, n.c), RMul(m.e, n.f)), m.f))

\* transform * (col, row)
AffineApply(m, col, row) ==
    <<RAdd(RAdd(RMul(m.a, RInt(col)), RMul(m.b, RInt(row))), m.c),
      RAdd(RAdd(RMul(m.d, RInt(col)), RMul(m.e, RInt(row))), m.f)>>

\* mutant: the origin put at the lower-left corner
from_bounds_LowerLeft(west, south, east, north, width, height) ==
    LET sx == RDivInt(RSub(east, west), width)
        sy == RDivInt(RSub(south, north), height)
    IN  IF ~sx.ok \/ ~sy.ok THEN Raised("ZeroDivisionError")
        ELSE [ok |-> TRUE,
              val |-> AffineMul(AffineTranslation(west, south), AffineScale(sx.val, sy.val))]

\* from_bounds(west, south, east, north, width, height) ==
\*   Affine.translation(west, north) * Affine.scale((east - west) / width,
\*                                                  (south - north) / height)
from_bounds(west, south, east, north, width, height) ==
    LET sx == RDivInt(RSub(east, west), width)
        sy == RDivInt(RSub(south, north), height)
    IN  IF ~sx.ok \/ ~sy.ok THEN Raised("ZeroDivisionError")
        ELSE [ok |-> TRUE,
              val |-> AffineMul(AffineTranslation(west, north), AffineScale(sx.val, sy.val))]

(***************************************************************************)
(* SpecParse: parse_map on calibration texts.                              *)
(***************************************************************************)
MaxLines == 4

T_MMPLL == <<"M", "M", "P", "L", "L">>

\* ",".join(fields)
RECURSIVE Csv(_)
Csv(fields) ==
    IF Len(fields) = 1 THEN fields[1]
    ELSE fields[1] \o <<",">> \o Csv(Tail(fields))

Line_1 == Csv(<<T_MMPLL, <<" ", "1">>, <<" ", "-", "1", "0">>, <<" ", "2", "0">>>>)
Line_2 == Csv(<<T_MMPLL, <<" ", "2">>, <<" ", "3", "0">>, <<" ", "5">>>>)
Line_3 == Csv(<<T_MMPLL, <<" ", "3">>, <<" ", "3", "0">>, <<" ", "2", ".", "5">>>>)
Line_1_east == Csv(<<T_MMPLL, <<" ", "1">>, <<" ", "4", "0">>, <<" ", "2">>>>)
Line_10 == Csv(<<T_MMPLL, <<" ", "1", "0">>, <<" ", "7">>, <<" ", "8">>>>)
Line_2_bad == Csv(<<T_MMPLL, <<" ", "2">>, <<" ", "x">>, <<" ", "5">>>>)
Line_3_short == Csv(<<T_MMPLL, <<" ", "3">>, <<" ", "5">>>>)
Line_4 == Csv(<<T_MMPLL, <<" ", "4">>, <<" ", "3", "0">>, <<" ", "2", "0">>>>)

LineSet == {Line_1, Line_2, Line_3, Line_1_east, Line_10, Line_2_bad,
            Line_3_short, Line_4}

RECURSIVE SeqsUpTo(_, _)
SeqsUpTo(S, n) ==
    IF n = 0 THEN {<<>>}
    ELSE LET shorter == SeqsUpTo(S, n - 1)
         IN  shorter \cup {Append(t, x) : t \in shorter, x \in S}

FileContents ==
    {[utf8 |-> TRUE, lines |-> t] : t \in SeqsUpTo(LineSet, MaxLines)}
        \cup {[utf8 |-> FALSE, lines |-> <<>>]}

(***************************************************************************)
(* The session: uploaded files, st.session_state, the file matching block. *)
(***************************************************************************)
OutputTypes == {"Type 2 (Lat/Lon)", "Type 3 (Geocentric XYZ)"}

\* sorted() of a set of keys: the keys in their order
KeyOrder == <<"a", "b">>
Keys == {KeyOrder[k] : k \in 1..Len(KeyOrder)}
sorted(S) == SelectSeq(KeyOrder, LAMBDA k : k \in S)

\* contents of a PNG upload: what Image.open(...).convert("RGBA") makes of it
Png(w, h) == [decodable |-> TRUE, width |-> w, height |-> h]
PngCorrupt == [decodable |-> FALSE, width |-> 0, height |-> 0]
\* the .map uploads, by name, and the bytes map_files[key].read() returns
MapGood == "good.map"
MapEast == "east-of-maxx.map"
MapMissing == "no-line-3.map"
MapBytes(m) ==
    CASE m = MapGood -> [utf8 |-> TRUE, lines |-> <<Line_1, Line_2, Line_3>>]
      [] m = MapEast -> [utf8 |-> TRUE, lines |-> <<Line_1_east, Line_2, Line_3>>]
      [] m = MapMissing -> [utf8 |-> TRUE, lines |-> <<Line_1, Line_2>>]

PngChoices(k) == IF k = "a" THEN {Png(2, 1), PngCorrupt} ELSE {Png(1, 1)}
MapChoices(k) == IF k = "a" THEN {MapGood, MapEast, MapMissing} ELSE {MapGood, MapMissing}

\* an uploaded file: os.path.splitext(f.name) = (key, ext), and its bytes
File(k, ext, content) == [key |-> k, ext |-> ext, content |-> content]
\* the files a user can put in the uploader (one per name)
FileUniverse ==
    UNION {{File(k, "png", c) : c \in PngChoices(k)} \cup
           {File(k, "map", m) : m \in MapChoices(k)} : k \in Keys}
SameName(f, g) == f.key = g.key /\ f.ext = g.ext

\* dict.get(k, default)
Get(d, k, default) == IF k \in DOMAIN d THEN d[k] ELSE default

\* SESSION DEFAULTS
defaults ==
    [uploaded_files |-> {},
     bounds_cache |-> EmptyDict,
     matched_keys |-> <<>>,
     png_files |-> EmptyDict,
     map_files |-> EmptyDict,
     zip_data |-> None,
     conversion_summary |-> EmptyDict]

\* locals of the conversion loop body, before any is assigned
NoLocals ==
    [width |-> 0, height |-> 0, bounds |-> None, transform |-> None,
     temp_tif |-> -1, temp_xyz |-> -1, final_tif |-> -1, bytes |-> 0]

\* {splitext(f.name)[0]: f for f in uploaded_files if f.name.lower().endswith(ext)}
FilesByKey(files, ext) ==
    LET ks == {f.key : f \in {g \in files : g.ext = ext}}
    IN  [k \in ks |-> (CHOOSE f \in files : f.key = k /\ f.ext = ext).content]

\* parse_map is a pure function of the bytes: its value on each content a
\* .map upload can have is computed once and read from `parsed`
MapContents == UNION {MapChoices(k) : k \in Keys}
ParseMapTable == [m \in MapContents |-> parse_map(MapBytes(m))]

\* the loop over matched keys that fills bounds_cache:
\*   bounds = parse_map(map_files[key].read()); if bounds: bounds_cache[key] = bounds
BoundsCache(map_files, matched) ==
    [k \in {m \in matched : parsed[map_files[m]].ok} |-> parsed[map_files[k]]]

\* FILE MATCHING block: session_state after it, for the uploader's value
FileMatching(files, s) ==
    IF files = {} THEN s
    ELSE LET png == FilesByKey(files, "png")
             map == FilesByKey(files, "map")
             matched == (DOMAIN png) \cap (DOMAIN map)
         IN  [s EXCEPT !.uploaded_files = files,
                       !.png_files = png,
                       !.map_files = map,
                       !.matched_keys = sorted(matched),
                       !.bounds_cache = BoundsCache(map, matched)]


ParseIdle ==
    /\ p_text = [utf8 |-> TRUE, lines |-> <<>>]
    /\ p_result = None
    /\ p_pc = "off"

TransIdle ==
    /\ t_bounds = <<0, 0, 0, 0>>
    /\ t_dims = <<0, 0>>
    /\ t_transform = None
    /\ t_pixel = <<0, 0>>
    /\ t_world = <<RInt(0), RInt(0)>>
    /\ t_pc = "off"

AppIdle ==
    /\ widget_files = {}
    /\ output_type = "Type 2 (Lat/Lon)"
    /\ ss = defaults
    /\ disk = {}
    /\ pc = "off"
    /\ i = 0
    /\ zipf = <<>>
    /\ loc = NoLocals
    /\ parsed = EmptyDict

InitParse ==
    /\ p_text \in FileContents
    /\ p_result = None
    /\ p_pc = "call"
    /\ AppIdle
    /\ TransIdle

\* bounds = parse_map(contents)
CallParseMap ==
    /\ p_pc = "call"
    /\ p_result' = parse_map(p_text)
    /\ p_pc' = "done"
    /\ UNCHANGED <<p_text, appVars, transVars>>

NextParse == CallParseMap

SpecParse == InitParse /\ [][NextParse]_vars

(***************************************************************************)
(* SpecTransform: from_bounds on bounds and raster dimensions, and the     *)
(* transform applied to pixels.                                            *)
(***************************************************************************)
MaxDim == 2

CoordVals == {-10, 5, 20, 30}
Dims == ((0..MaxDim) \X (0..MaxDim)) \cup {<<100, 50>>}
Cols(w) == IF w <= MaxDim THEN 0..w ELSE {0, w \div 2, w}

InitTransform ==
    /\ t_bounds \in CoordVals \X CoordVals \X CoordVals \X CoordVals
    /\ t_dims \in Dims
    /\ t_transform = None
    /\ t_pixel = <<0, 0>>
    /\ t_world = <<RInt(0), RInt(0)>>
    /\ t_pc = "build"
    /\ AppIdle
    /\ ParseIdle

\* transform = from_bounds(*bounds, width=width, height=height)
TBuild ==
    /\ t_pc = "build"
    /\ t_transform' = from_bounds(RInt(t_bounds[1]), RInt(t_bounds[2]), RInt(t_bounds[3]),
                                  RInt(t_bounds[4]), t_dims[1], t_dims[2])
    /\ t_pc' = IF t_transform'.ok THEN "built" ELSE "raised"
    /\ UNCHANGED <<t_bounds, t_dims, t_pixel, t_world, appVars, parseVars>>

\* transform * (col, row)
TMapPixel ==
    /\ t_pc = "built"
    /\ \E c \in Cols(t_dims[1]), r \in Cols(t_dims[2]) :
          /\ t_pixel' = <<c, r>>
          /\ t_world' = AffineApply(t_transform.val, c, r)
    /\ t_pc' = "mapped"
    /\ UNCHANGED <<t_bounds, t_dims, t_transform, appVars, parseVars>>

NextTransform == TBuild \/ TMapPixel

SpecTransform == InitTransform /\ [][NextTransform]_vars

(***************************************************************************)
(* What a script run renders (derived from the state it ends in).          *)
(***************************************************************************)
\* st.warning("No matching PNG + MAP pairs found.")
WarningNoPairs == widget_files # {} /\ ss.matched_keys = <<>>
\* st.error("Invalid .map format: {key}.map")
InvalidMapErrors ==
    IF widget_files = {} THEN {}
    ELSE {k \in DOMAIN ss.map_files \cap DOMAIN ss.png_files : k \notin DOMAIN ss.bounds_cache}
\* DOWNLOAD + SUMMARY block: the counts shown, or None when the block is skipped
SummaryShown ==
    IF ~ss.zip_data.ok THEN None
    ELSE [ok |-> TRUE,
          succeeded |-> Len(Get(ss.conversion_summary, "success", <<>>)),
          failed |-> Len(Get(ss.conversion_summary, "failed", <<>>)),
          total_bytes |-> Get(ss.conversion_summary, "total_bytes", 0)]
\* the archive behind the download button
ArchiveOffered == ss.zip_data

(***************************************************************************)
(* Spec: the session's actions. Each user action is one script run.        *)
(***************************************************************************)
MaxTmp == 3

Init ==
    /\ widget_files = {}
    /\ output_type = "Type 2 (Lat/Lon)"
    /\ ss = defaults
    /\ disk = {}
    /\ pc = "idle"
    /\ i = 0
    /\ zipf = <<>>
    /\ loc = NoLocals
    /\ parsed = ParseMapTable
    /\ ParseIdle
    /\ TransIdle

runVars == <<pc, i, zipf, loc>>

\* the user adds a file to the uploader; the script reruns
AddFile ==
    /\ pc = "idle"
    /\ \E f \in FileUniverse :
          /\ \A g \in widget_files : ~SameName(f, g)
          /\ widget_files' = widget_files \cup {f}
          /\ ss' = FileMatching(widget_files', ss)
    /\ UNCHANGED <<output_type, disk, runVars, parsed, parseVars, transVars>>

\* the user removes a file from the uploader; the script reruns
RemoveFile ==
    /\ pc = "idle"
    /\ \E f \in widget_files :
          /\ widget_files' = widget_files \ {f}
          /\ ss' = FileMatching(widget_files', ss)
    /\ UNCHANGED <<output_type, disk, runVars, parsed, parseVars, transVars>>

\* the user changes the radio; the script reruns
SetOutputType ==
    /\ pc = "idle"
    /\ \E t \in OutputTypes \ {output_type} : output_type' = t
    /\ ss' = FileMatching(widget_files, ss)
    /\ UNCHANGED <<widget_files, disk, runVars, parsed, parseVars, transVars>>

\* "Reset App": session_state.clear(), a new uploader key (an empty
\* uploader), st.rerun(); the radio keeps its value
ResetApp ==
    /\ pc = "idle"
    /\ ss' = defaults
    /\ widget_files' = {}
    /\ UNCHANGED <<output_type, disk, runVars, parsed, parseVars, transVars>>

key == ss.matched_keys[i]
IsType3 == output_type = "Type 3 (Geocentric XYZ)"

\* progress.progress(...) and the for statement: the next pair, or the end
NextPair ==
    /\ i' = i + 1
    /\ pc' = IF i < Len(ss.matched_keys) THEN "decode" ELSE "finish"
    /\ loc' = NoLocals

\* mutant: the exception swallowed without a record
RecordFailure_Dropped(summary, k, msg) == summary
\* conversion_summary["failed"].append((key, str(e)))
RecordFailure(summary, k, msg) ==
    [summary EXCEPT !.failed = Append(@, <<k, msg>>)]

\* except Exception as e: the failure recorded, then the next pair
Except(msg) ==
    /\ ss' = [ss EXCEPT !.conversion_summary = RecordFailure(@, key, msg)]
    /\ NextPair

\* tempfile.NamedTemporaryFile picks a name no existing file has
FreshName == CHOOSE n \in 0..MaxTmp : n \notin disk
\* the temporary directory holds no more than MaxTmp files (ENOSPC beyond)
DiskFull == Cardinality(disk) >= MaxTmp

\* len(data) of a GeoTIFF holding 4 bands of width x height bytes
GTiffBytes(width, height) == 4 * width * height + 8   \* 8 for the header

\* "Convert to GeoTIFF" clicked: the script reruns, zip_buffer and
\* conversion_summary are made anew, the loop starts
ClickConvert ==
    /\ pc = "idle"
    /\ LET s == FileMatching(widget_files, ss)
       IN  /\ s.bounds_cache # EmptyDict
           /\ ss' = [s EXCEPT !.conversion_summary =
                         [success |-> <<>>, failed |-> <<>>, total_bytes |-> 0]]
           /\ pc' = IF s.matched_keys = <<>> THEN "finish" ELSE "decode"
    /\ i' = 1
    /\ zipf' = <<>>
    /\ loc' = NoLocals
    /\ UNCHANGED <<widget_files, output_type, disk, parsed, parseVars, transVars>>

\* image = Image.open(png_files[key]).convert("RGBA"); height, width = shape[:2]
Decode ==
    /\ pc = "decode"
    /\ LET png == ss.png_files[key]
       IN  IF png.decodable
           THEN /\ loc' = [loc EXCEPT !.width = png.width, !.height = png.height]
                /\ pc' = "lookup"
                /\ UNCHANGED <<ss, i>>
           ELSE Except("cannot identify image file")
    /\ UNCHANGED <<widget_files, output_type, disk, zipf, parsed, parseVars, transVars>>

\* mutant: bounds_cache.get(key, <whole-world bounds>)
Lookup_Default(cache, k) ==
    IF k \in DOMAIN cache THEN cache[k]
    ELSE [ok |-> TRUE, minx |-> RInt(-180), miny |-> RInt(-90),
          maxx |-> RInt(180), maxy |-> RInt(90)]
\* bounds_cache[key]: the bounds, or KeyError
Lookup(cache, k) == IF k \in DOMAIN cache THEN cache[k] ELSE Raised("KeyError")

\* bounds = st.session_state.bounds_cache[key]
LookupBounds ==
    /\ pc = "lookup"
    /\ LET b == Lookup(ss.bounds_cache, key)
       IN  IF b.ok
           THEN /\ loc' = [loc EXCEPT !.bounds = b]
                /\ pc' = "transform"
                /\ UNCHANGED <<ss, i>>
           ELSE Except(b.exc)
    /\ UNCHANGED <<widget_files, output_type, disk, zipf, parsed, parseVars, transVars>>

\* transform = from_bounds(*bounds, width=width, height=height)
BuildTransform ==
    /\ pc = "transform"
    /\ LET b == loc.bounds
           t == from_bounds(b.minx, b.miny, b.maxx, b.maxy, loc.width, loc.height)
       IN  IF t.ok
           THEN /\ loc' = [loc EXCEPT !.transform = t]
                /\ pc' = "write"
                /\ UNCHANGED <<ss, i>>
           ELSE Except(t.exc)
    /\ UNCHANGED <<widget_files, output_type, disk, zipf, parsed, parseVars, transVars>>

\* with NamedTemporaryFile(suffix=".tif", delete=False) as temp_tif:
\*     with rasterio.open(temp_tif.name, 'w', ...) as dst: dst.write(...)
\*     final_tif = temp_tif.name
WriteRaster ==
    /\ pc = "write"
    /\ IF DiskFull
       THEN /\ Except("No space left on device")
            /\ UNCHANGED disk
       ELSE /\ disk' = disk \cup {FreshName}
            /\ \E written \in BOOLEAN :
                  IF written
                  THEN /\ loc' = [loc EXCEPT !.temp_tif = FreshName,
                                             !.final_tif = FreshName,
                                             !.bytes = GTiffBytes(loc.width, loc.height)]
                       /\ pc' = IF IsType3 THEN "reproject" ELSE "archive"
                       /\ UNCHANGED <<ss, i>>
                  ELSE Except("raster write failed")
    /\ UNCHANGED <<widget_files, output_type, zipf, parsed, parseVars, transVars>>

\* the destination grids calculate_default_transform may choose for a
\* width x height source
DstGrids(width, height) == {<<width, height>>, <<width + 1, height + 1>>}

\* reproject_to_xyz(src_path, dst_path): the destination raster is written
\* with the grid calculate_default_transform chose, or an exception leaves
\* the (created) destination file behind
reproject_to_xyz(ok, grid) ==
    IF ok THEN [ok |-> TRUE, bytes |-> GTiffBytes(grid[1], grid[2])]
    ELSE Raised("reprojection failed")

\* temp_xyz = NamedTemporaryFile(suffix=".tif", delete=False)
\* reproject_to_xyz(final_tif, temp_xyz.name); final_tif = temp_xyz.name
Reproject ==
    /\ pc = "reproject"
    /\ IF DiskFull
       THEN /\ Except("No space left on device")
            /\ UNCHANGED disk
       ELSE /\ disk' = disk \cup {FreshName}
            /\ \E done \in BOOLEAN, grid \in DstGrids(loc.width, loc.height) :
                  LET r == reproject_to_xyz(done, grid)
                  IN  IF r.ok
                      THEN /\ loc' = [loc EXCEPT !.temp_xyz = FreshName,
                                                 !.final_tif = FreshName,
                                                 !.bytes = r.bytes]
                           /\ pc' = "archive"
                           /\ UNCHANGED <<ss, i>>
                      ELSE Except(r.exc)
    /\ UNCHANGED <<widget_files, output_type, zipf, parsed, parseVars, transVars>>

\* f"{key}_geotiff.tif"
EntryName(k) == <<k, "_geotiff.tif">>

\* conversion_summary["total_bytes"] += len(data)
AddBytes(summary, n) == [summary EXCEPT !.total_bytes = @ + n]

\* with open(final_tif, "rb") as f: data = f.read()
\*     zipf.writestr(f"{key}_geotiff.tif", data); total_bytes += len(data)
ArchiveWrite ==
    /\ pc = "archive"
    /\ \E readable \in BOOLEAN :
          IF readable /\ loc.final_tif \in disk
          THEN /\ zipf' = Append(zipf, [name |-> EntryName(key), size |-> loc.bytes])
               /\ ss' = [ss EXCEPT !.conversion_summary = AddBytes(@, loc.bytes)]
               /\ pc' = "remove"
               /\ UNCHANGED <<i, loc>>
          ELSE /\ Except("cannot read the raster file")
               /\ UNCHANGED zipf
    /\ UNCHANGED <<widget_files, output_type, disk, parsed, parseVars, transVars>>

\* os.remove(path): the files left, or FileNotFoundError
os_remove(files, path) ==
    IF path \in files THEN [ok |-> TRUE, files |-> files \ {path}]
    ELSE Raised("No such file or directory")

\* conversion_summary["success"].append(key)
RecordSuccess(summary, k) == [summary EXCEPT !.success = Append(@, k)]

\* os.remove(final_tif)
\* if output_type == "Type 3 (Geocentric XYZ)": os.remove(temp_xyz.name)
\* status_slots[key].success(...); conversion_summary["success"].append(key)
RemoveTemps ==
    /\ pc = "remove"
    /\ LET r1 == os_remove(disk, loc.final_tif)
           r2 == IF IsType3 THEN os_remove(r1.files, loc.temp_xyz) ELSE r1
       IN  IF ~r1.ok
           THEN /\ Except(r1.exc)
                /\ UNCHANGED disk
           ELSE IF ~r2.ok
           THEN /\ Except(r2.exc)
                /\ disk' = r1.files
           ELSE /\ disk' = r2.files
                /\ ss' = [ss EXCEPT !.conversion_summary = RecordSuccess(@, key)]
                /\ NextPair
    /\ UNCHANGED <<widget_files, output_type, zipf, parsed, parseVars, transVars>>

\* the ZipFile is closed; st.session_state.zip_data = zip_buffer.getvalue()
FinishRun ==
    /\ pc = "finish"
    /\ ss' = [ss EXCEPT !.zip_data = [ok |-> TRUE, entries |-> zipf]]
    /\ pc' = "idle"
    /\ i' = 0
    /\ zipf' = <<>>
    /\ loc' = NoLocals
    /\ UNCHANGED <<widget_files, output_type, disk, parsed, parseVars, transVars>>

Next ==
    \/ AddFile
    \/ RemoveFile
    \/ SetOutputType
    \/ ResetApp
    \/ ClickConvert
    \/ Decode
    \/ LookupBounds
    \/ BuildTransform
    \/ WriteRaster
    \/ Reproject
    \/ ArchiveWrite
    \/ RemoveTemps
    \/ FinishRun

Spec == Init /\ [][Next]_vars


(***************************************************************************)
(* Claims about parse_map (checked under SpecParse).                       *)
(***************************************************************************)
\* a line of the recognized type n: tag MMPLL, index n
IsLineType(line, n) ==
    LET f == split(line, ",")
    IN  Len(f) >= 2 /\ f[1] = T_MMPLL /\ strip(f[2]) = <<n>>
HasLineType(lines, n) == \E k \in 1..Len(lines) : IsLineType(lines[k], n)
\* numeric fields at positions 3 and 4
WellFormedLine(line) ==
    LET f == split(line, ",")
    IN  Len(f) >= 4 /\ float(f[3]).ok /\ float(f[4]).ok
AllThreeWellFormed(lines) ==
    /\ \A n \in {"1", "2", "3"} : HasLineType(lines, n)
    /\ \A k \in 1..Len(lines) :
          (\E n \in {"1", "2", "3"} : IsLineType(lines[k], n)) => WellFormedLine(lines[k])
\* the last line that starts with "MMPLL, n"
LastStarting(lines, n) ==
    lines[CHOOSE k \in 1..Len(lines) :
              /\ startswith(lines[k], PrefixMMPLL(n))
              /\ \A m \in (k + 1)..Len(lines) : ~startswith(lines[m], PrefixMMPLL(n))]
FieldAt(line, k) == float(split(line, ",")[k]).val

\* C5: a calibration text in which one of the three recognized line types
\* (MMPLL index 1, 2, 3) is absent makes parse_map report a failure (None).
C5_MissingLineTypeFails ==
    (p_pc = "done" /\ \E n \in {"1", "2", "3"} : ~HasLineType(p_text.lines, n))
        => ~p_result.ok

C7_TransformIsLinear ==
    LET minx == t_bounds[1]  miny == t_bounds[2]
        maxx == t_bounds[3]  maxy == t_bounds[4]
        w == t_dims[1]  h == t_dims[2]
        ordered == minx < maxx /\ miny < maxy /\ w > 0 /\ h > 0
    IN  /\ (t_pc = "raised" /\ ordered) => FALSE
        /\ (t_pc = "mapped" /\ ordered) =>
              /\ t_world[1] = Rat(minx * w + t_pixel[1] * (maxx - minx), w)
              /\ t_world[2] = Rat(maxy * h - t_pixel[2] * (maxy - miny), h)
              /\ t_pixel = <<0, 0>> => t_world = <<RInt(minx), RInt(maxy)>>
              /\ t_pixel = <<w, h>> => t_world = <<RInt(maxx), RInt(miny)>>
              /\ (t_bounds = <<-10, 5, 30, 20>> /\ t_dims = <<100, 50>>
                      /\ t_pixel = <<50, 25>>)
                    => t_world = <<RInt(10), Rat(25, 2)>>

\* the scenario of the claim is reached
C7_Witness ==
    /\ t_pc = "mapped"
    /\ t_bounds = <<-10, 5, 30, 20>> /\ t_dims = <<100, 50>> /\ t_pixel = <<50, 25>>
    /\ t_world = <<RInt(10), Rat(25, 2)>>

(***************************************************************************)
(* Claims about the conversion run (checked under Spec).                   *)
(***************************************************************************)
InRun == pc \notin {"idle", "off"}
summary == ss.conversion_summary
SuccessKeys == {summary.success[n] : n \in 1..Len(summary.success)}
FailedKeys == {summary.failed[n][1] : n \in 1..Len(summary.failed)}
\* a run has ended and its summary and archive are in the session
AfterRun == pc = "idle" /\ ss.zip_data.ok
EntriesFor(entries, k) == {n \in 1..Len(entries) : entries[n].name = EntryName(k)}
RECURSIVE SumSizes(_, _)
SumSizes(entries, ks) ==
    IF entries = <<>> THEN 0
    ELSE (IF \E k \in ks : Head(entries).name = EntryName(k) THEN Head(entries).size ELSE 0)
            + SumSizes(Tail(entries), ks)
\* the steps of a pair after its image was decoded, after its transform was built
AfterDecode == {"lookup", "transform", "write", "reproject", "archive", "remove"}
AfterTransform == {"write", "reproject", "archive", "remove"}
Unparsed(k) == k \notin DOMAIN ss.bounds_cache

\* C1: after a run the archive holds {key}_geotiff.tif exactly once for each
\* key recorded as a success and not at all for any other key.
C1_ArchiveEntryIffSuccess ==
    AfterRun =>
        \A k \in Keys :
            /\ k \in SuccessKeys => Cardinality(EntriesFor(ss.zip_data.entries, k)) = 1
            /\ k \notin SuccessKeys => EntriesFor(ss.zip_data.entries, k) = {}

\* C2: a failure in a step of a pair is recorded for that key and the loop
\* goes on: while the loop is at pair i, each earlier matched key is in
\* exactly one of the success list and the failure list, no later key is in
\* either, and the loop ends only after the last key.
C2_FailureRecordedBatchContinues ==
    InRun =>
        /\ \A n \in 1..Len(ss.matched_keys) :
              LET k == ss.matched_keys[n]
              IN  /\ n < i => (k \in SuccessKeys) # (k \in FailedKeys)
                  /\ n >= i => k \notin SuccessKeys \cup FailedKeys
        /\ Len(summary.success) + Len(summary.failed) = i - 1
        /\ SuccessKeys \cup FailedKeys \subseteq
              {ss.matched_keys[n] : n \in 1..Len(ss.matched_keys)}
        /\ (pc = "finish") = (i = Len(ss.matched_keys) + 1)

\* a run ends in which the first pair failed and the second was converted
C2_Witness ==
    /\ pc = "finish"
    /\ Len(ss.matched_keys) = 2
    /\ ss.matched_keys[1] \in FailedKeys
    /\ ss.matched_keys[2] \in SuccessKeys

\* C3: no temporary file exists when a pair starts or when the run has ended.
C3_NoTempFileOutlivesItsPair ==
    pc \in {"decode", "finish", "idle"} => disk = {}

\* C4 as stated: a matched key without cached bounds gets no per-pair step
\* and is recorded in neither list.
C4_UnparsedKeySkipped ==
    /\ pc \in AfterDecode => ~Unparsed(key)
    /\ pc = "finish" =>
          \A n \in 1..Len(ss.matched_keys) :
              Unparsed(ss.matched_keys[n]) =>
                  ss.matched_keys[n] \notin SuccessKeys \cup FailedKeys

\* C4 as amended: a matched key without cached bounds is still started (its
\* image is decoded) but gets no further than the bounds lookup: no transform,
\* raster or archive entry is made for it, it is never a success, and once
\* its pair is over it is in the failure list with the decode error or the
\* KeyError; a key with cached bounds never fails with the KeyError.
C4_UnparsedKeyFailsAtLookup ==
    InRun =>
        \A n \in 1..Len(ss.matched_keys) :
            LET k == ss.matched_keys[n]
            IN  /\ Unparsed(k) =>
                      /\ k \notin SuccessKeys
                      /\ EntriesFor(zipf, k) = {}
                      /\ n = i => pc \in {"decode", "lookup"}
                      /\ n < i =>
                            \/ <<k, "KeyError">> \in
                                  {summary.failed[m] : m \in 1..Len(summary.failed)}
                            \/ <<k, "cannot identify image file">> \in
                                  {summary.failed[m] : m \in 1..Len(summary.failed)}
                /\ ~Unparsed(k) =>
                      /\ <<k, "KeyError">> \notin
                            {summary.failed[m] : m \in 1..Len(summary.failed)}
                      /\ n < i => k \in SuccessKeys \cup FailedKeys

\* a run ends in which the key whose .map did not parse failed at the lookup
\* and the other key was converted
C4_Witness ==
    /\ pc = "finish"
    /\ \E k1, k2 \in Keys :
          /\ Unparsed(k1) /\ <<k1, "KeyError">> \in
                {summary.failed[m] : m \in 1..Len(summary.failed)}
          /\ ~Unparsed(k2) /\ k2 \in SuccessKeys /\ EntriesFor(zipf, k2) # {}

\* C8: with files uploaded and no matched pair, the warning is shown, the
\* summary (if any) shows 0 successes and 0 failures and the archive (if any)
\* is empty.
C8_NoPairsShowsEmptyResult ==
    (pc = "idle" /\ widget_files # {} /\ ss.matched_keys = <<>>) =>
        /\ WarningNoPairs
        /\ SummaryShown.ok => (SummaryShown.succeeded = 0 /\ SummaryShown.failed = 0)
        /\ ArchiveOffered.ok => ArchiveOffered.entries = <<>>

\* C9: the transform is not built (the pair fails there) when width <= 0,
\* height <= 0 or the bounds are not ordered, and no archive entry is made
\* for such a pair.
Degenerate(width, height, b) ==
    \/ width <= 0
    \/ height <= 0
    \/ ~RLt(b.minx, b.maxx)
    \/ ~RLt(b.miny, b.maxy)
C9_DegenerateBoundsRejected ==
    /\ pc \in AfterTransform => ~Degenerate(loc.width, loc.height, loc.bounds)
    /\ InRun =>
          \A k \in DOMAIN ss.bounds_cache :
              ~(RLt(ss.bounds_cache[k].minx, ss.bounds_cache[k].maxx)
                  /\ RLt(ss.bounds_cache[k].miny, ss.bounds_cache[k].maxy))
                => EntriesFor(zipf, k) = {}

\* C10: after a run total_bytes is the sum of the sizes of the archive
\* entries of the keys in the success list.
C10_TotalBytesOfSuccesses ==
    AfterRun =>
        Get(summary, "total_bytes", 0) = SumSizes(ss.zip_data.entries, SuccessKeys)

====
